---- MODULE Spec2Model ----
(***************************************************************************)
(* A model of clicktime.py: the ClickTime client object (construction,     *)
(* the GET/POST helpers, the JSON parse helper, the public operations)     *)
(* and the create_timeentry branch of the command-line harness.            *)
(*                                                                         *)
(* Python values are modelled as tagged records: None is [ty |-> "None"],  *)
(* a dict is [ty |-> "dict", d |-> <function on its keys>], a list is      *)
(* [ty |-> "list", l |-> <sequence>].  A str that the code takes apart     *)
(* (a YYYYMMDD date, the credentials) is a sequence of digits or bytes.    *)
(* A response body is either the JSON text of a value ([json |-> TRUE,     *)
(* val |-> v]) or text that is not JSON ([json |-> FALSE, ...]).           *)
(***************************************************************************)
EXTENDS Integers, Sequences, FiniteSets, TLC

VARIABLES
    phase,      \* "new" (no object yet), "ready" (constructed), "failed" (__init__ raised)
    logging,    \* TRUE iff the name logging is bound in the module (run as __main__)
    made,       \* the arguments __init__ was called with
    __headers,  \* self.__headers
    __session,  \* self.__session
    attrs,      \* the attributes __init__ set on the instance
    last,       \* the last call: operation, arguments, response, outcome
    cli         \* the command-line harness: position in the loop and its locals

vars == <<phase, logging, made, __headers, __session, attrs, last, cli>>

\* Longest collection the server returns.
MaxItems == 2

\* ----------------------------------------------------------------- values

None == [ty |-> "None"]
Dict(f) == [ty |-> "dict", d |-> f]
List(s) == [ty |-> "list", l |-> s]
JInt(n) == [ty |-> "int", n |-> n]
JStr(s) == [ty |-> "str", s |-> s]

\* str(v) of a JSON scalar: the decimal text of a number, the text of a string.
Str(v) == IF v.ty = "int" THEN ToString(v.n) ELSE v.s

IsNone(v) == v.ty = "None"

SERVER == "app.clicktime.com"
URL_BASE == "/api/1.0"

\* ----------------------------------------------------------------- base64

B64Alphabet ==
    << "A","B","C","D","E","F","G","H","I","J","K","L","M","N","O","P",
       "Q","R","S","T","U","V","W","X","Y","Z","a","b","c","d","e","f",
       "g","h","i","j","k","l","m","n","o","p","q","r","s","t","u","v",
       "w","x","y","z","0","1","2","3","4","5","6","7","8","9","+","/" >>

B64Char(i) == B64Alphabet[i + 1]

\* base64.encodestring of a byte sequence shorter than one 57-byte line,
\* without the newline it appends (which __init__ cuts off with [:-1]).
RECURSIVE B64(_)
B64(bytes) ==
    IF Len(bytes) = 0 THEN ""
    ELSE IF Len(bytes) = 1 THEN
        B64Char(bytes[1] \div 4) \o B64Char((bytes[1] % 4) * 16) \o "=="
    ELSE IF Len(bytes) = 2 THEN
        B64Char(bytes[1] \div 4)
        \o B64Char((bytes[1] % 4) * 16 + bytes[2] \div 16)
        \o B64Char((bytes[2] % 16) * 4) \o "="
    ELSE
        B64Char(bytes[1] \div 4)
        \o B64Char((bytes[1] % 4) * 16 + bytes[2] \div 16)
        \o B64Char((bytes[2] % 16) * 4 + bytes[3] \div 64)
        \o B64Char(bytes[3] % 64)
        \o B64(SubSeq(bytes, 4, Len(bytes)))

\* "Basic %s" % base64.encodestring("%s:%s" % (username, password))[:-1]
BasicAuth(username, password) == "Basic " \o B64(username \o <<58>> \o password)

\* ------------------------------------------------------------------ dates

IsLeap(y) == y % 4 = 0 /\ (y % 100 # 0 \/ y % 400 = 0)

DaysInMonth(y, m) ==
    IF m = 2 THEN (IF IsLeap(y) THEN 29 ELSE 28)
    ELSE IF m \in {4, 6, 9, 11} THEN 30 ELSE 31

DaysBeforeYear(y) ==
    (y - 1) * 365 + (y - 1) \div 4 - (y - 1) \div 100 + (y - 1) \div 400

RECURSIVE DaysBeforeMonth(_, _)
DaysBeforeMonth(y, m) ==
    IF m = 1 THEN 0 ELSE DaysBeforeMonth(y, m - 1) + DaysInMonth(y, m - 1)

\* The proleptic Gregorian ordinal of a date, as datetime keeps it.
Ordinal(y, m, d) == DaysBeforeYear(y) + DaysBeforeMonth(y, m) + d

\* A datetime value at midnight of the day with ordinal n.
DateTime(n) == [ty |-> "datetime", ord |-> n]

\* datetime.datetime.strptime(s, "%Y%m%d") of an eight-digit str.
Strptime(s) ==
    LET y == s[1] * 1000 + s[2] * 100 + s[3] * 10 + s[4]
        m == s[5] * 10 + s[6]
        d == s[7] * 10 + s[8]
    IN  IF y >= 1 /\ m \in 1..12 /\ d >= 1 /\ d <= DaysInMonth(y, m)
        THEN [exc |-> "none", val |-> DateTime(Ordinal(y, m, d))]
        ELSE [exc |-> "ValueError", val |-> None]

\* The year of ordinal n.
YearOf(n) ==
    LET n0   == n - 1
        n400 == n0 \div 146097
        r400 == n0 % 146097
        n100 == r400 \div 36524
        r100 == r400 % 36524
        n4   == r100 \div 1461
        r4   == r100 % 1461
        n1   == r4 \div 365
        y    == n400 * 400 + n100 * 100 + n4 * 4 + n1 + 1
    IN  IF n1 = 4 \/ n100 = 4 THEN y - 1 ELSE y

RECURSIVE MonthOf(_, _, _)
MonthOf(y, dayOfYear, m) ==
    IF dayOfYear <= DaysBeforeMonth(y, m) + DaysInMonth(y, m) THEN m
    ELSE MonthOf(y, dayOfYear, m + 1)

Pad(n, width) ==
    IF width = 4 THEN
        ToString(n \div 1000) \o ToString((n \div 100) % 10)
        \o ToString((n \div 10) % 10) \o ToString(n % 10)
    ELSE ToString(n \div 10) \o ToString(n % 10)

\* date.strftime("%Y%m%d")
Strftime(date) ==
    LET y   == YearOf(date.ord)
        doy == date.ord - DaysBeforeYear(y)
        m   == MonthOf(y, doy, 1)
        d   == doy - DaysBeforeMonth(y, m)
    IN  Pad(y, 4) \o Pad(m, 2) \o Pad(d, 2)

\* ------------------------------------------------------------ hours (float)

DigitChars == <<"0", "1", "2", "3", "4", "5", "6", "7", "8", "9">>

IsDigit(c) == \E i \in 1..10 : DigitChars[i] = c

DigitVal(c) == CHOOSE i \in 0..9 : DigitChars[i + 1] = c

RECURSIVE DecimalValue(_)
DecimalValue(cs) ==
    IF cs = <<>> THEN 0
    ELSE DecimalValue(SubSeq(cs, 1, Len(cs) - 1)) * 10 + DigitVal(cs[Len(cs)])

RECURSIVE Pow10(_)
Pow10(k) == IF k = 0 THEN 1 ELSE 10 * Pow10(k - 1)

\* float(hours): hours is a number, or a str given as its characters; a str
\* that is not a decimal numeral raises ValueError.  A float is num/den.
Float(hours) ==
    IF hours.ty = "int"
    THEN [exc |-> "none", val |-> [ty |-> "float", num |-> hours.n, den |-> 1]]
    ELSE
        LET s      == hours.s
            dots   == {i \in 1..Len(s) : s[i] = "."}
            digits == SelectSeq(s, IsDigit)
            frac   == IF dots = {} THEN 0
                      ELSE Len(s) - (CHOOSE i \in dots : TRUE)
        IN  IF /\ \A i \in 1..Len(s) : IsDigit(s[i]) \/ s[i] = "."
               /\ Cardinality(dots) <= 1
               /\ digits # <<>>
            THEN [exc |-> "none",
                  val |-> [ty |-> "float", num |-> DecimalValue(digits),
                           den |-> Pow10(frac)]]
            ELSE [exc |-> "ValueError", val |-> None]

\* ------------------------------------------------------- request helpers

\* What one HTTPSConnection goes through in _get and _post, in order.
ConnectionSteps == <<"HTTPSConnection", "request", "getresponse", "read", "close">>

\* dict.update: the entries of other replace and extend those of d.
Update(d, other) ==
    [k \in DOMAIN d \cup DOMAIN other |->
        IF k \in DOMAIN other THEN other[k] ELSE d[k]]

SetItem(d, key, value) == Update(d, [k \in {key} |-> value])

\* A faulty variant of MergeHeaders: without copy.copy the request's mapping is the
\* stored mapping itself.
MergeHeadersNoCopy(headers, stored) ==
    IF ~IsNone(headers) /\ DOMAIN headers.d # {}
    THEN [h |-> Update(headers.d, stored), aliased |-> FALSE]
    ELSE [h |-> stored, aliased |-> TRUE]

\* The first four lines of _get and _post: the caller's headers updated with
\* the stored ones, or a copy of the stored ones.  aliased says whether the
\* result is the stored mapping itself (then a later write to it changes
\* self.__headers).
MergeHeaders(headers, stored) ==
    IF ~IsNone(headers) /\ DOMAIN headers.d # {}
    THEN [h |-> Update(headers.d, stored), aliased |-> FALSE]
    ELSE [h |-> stored, aliased |-> FALSE]

\* _get: the request sent, the raw response, what the connection went
\* through, and self.__headers as the call leaves it.
_get(stored, url, headers, resp) ==
    LET m == MergeHeaders(headers, stored)
    IN  [req    |-> [method |-> "GET", host |-> SERVER,
                     url |-> URL_BASE \o "/" \o url,
                     headers |-> m.h, body |-> None],
         data   |-> resp.body,
         status |-> resp.status,
         wire   |-> ConnectionSteps,
         stored |-> stored]

_post(stored, url, headers, data, resp) ==
    LET m    == MergeHeaders(headers, stored)
        sent == SetItem(m.h, "content-type", "application/json; charset=utf-8")
    IN  [req    |-> [method |-> "POST", host |-> SERVER,
                     url |-> URL_BASE \o "/" \o url,
                     headers |-> sent, body |-> data],
         data   |-> resp.body,
         status |-> resp.status,
         wire   |-> ConnectionSteps,
         stored |-> IF m.aliased THEN sent ELSE stored]

\* json.dumps and json.loads: a body is the JSON text of a value, or text
\* that is not JSON, on which json.loads raises ValueError.
Dumps(v) == [json |-> TRUE, val |-> v]

\* _parse: on ValueError it calls logging.error, which raises NameError
\* unless the module was run as __main__ (the only import of logging).
_parse(log, json_str, default) ==
    IF json_str.json THEN [exc |-> "none", val |-> json_str.val]
    ELSE IF log THEN [exc |-> "none", val |-> default]
    ELSE [exc |-> "NameError", val |-> None]

\* --------------------------------------------------------- call outcomes

\* A call that raised before it sent anything.
Raise(stored, e) ==
    [exc |-> e, ret |-> None, reqs |-> <<>>, wire |-> <<>>, stored |-> stored]

\* A call that sent request r and then raised e or returned v.
Sent(r, e, v) ==
    [exc |-> e, ret |-> IF e = "none" THEN v ELSE None,
     reqs |-> <<r.req>>, wire |-> r.wire, stored |-> r.stored]

HasAttr(self, names) == names \subseteq DOMAIN self.attrs

UserUrl(self, tail) ==
    "Companies/" \o self.attrs["CompanyID"] \o "/Users/"
    \o self.attrs["UserID"] \o "/" \o tail

\* ------------------------------------------------------ public operations

session(self, resp) ==
    LET r == _get(self.headers, "Session", None, resp)
        p == _parse(self.logging, r.data, None)
    IN  Sent(r, p.exc, p.val)

company(self, company_id, resp) ==
    IF IsNone(company_id) /\ ~HasAttr(self, {"CompanyID"})
    THEN Raise(self.headers, "AttributeError")
    ELSE
        LET id == IF IsNone(company_id) THEN self.attrs["CompanyID"]
                  ELSE Str(company_id)
            r  == _get(self.headers, "Companies/" \o id, None, resp)
            p  == _parse(self.logging, r.data, None)
        IN  Sent(r, p.exc, p.val)

\* "Companies/%s/Users/" % (company_id, user_id): one conversion for two
\* arguments, so the formatting raises TypeError before _get is called.
user(self, company_id, user_id) ==
    IF \/ IsNone(company_id) /\ ~HasAttr(self, {"CompanyID"})
       \/ IsNone(user_id) /\ ~HasAttr(self, {"UserID"})
    THEN Raise(self.headers, "AttributeError")
    ELSE Raise(self.headers, "TypeError")

\* A faulty variant of FirstMatch: every matching item instead of the first.
RECURSIVE AllMatches(_, _, _, _)
AllMatches(items, field, id, i) ==
    IF i > Len(items) THEN [exc |-> "none", val |-> List(<<>>)]
    ELSE IF field \notin DOMAIN items[i] THEN [exc |-> "KeyError", val |-> None]
    ELSE
        LET rest == AllMatches(items, field, id, i + 1)
        IN  IF rest.exc # "none" THEN rest
            ELSE IF items[i][field] = id
            THEN [exc |-> "none", val |-> List(<<items[i]>> \o rest.val.l)]
            ELSE rest

\* for item in data: if item[field] == id: return [item]  /  return []
RECURSIVE FirstMatch(_, _, _, _)
FirstMatch(items, field, id, i) ==
    IF i > Len(items) THEN [exc |-> "none", val |-> List(<<>>)]
    ELSE IF field \notin DOMAIN items[i] THEN [exc |-> "KeyError", val |-> None]
    ELSE IF items[i][field] = id THEN [exc |-> "none", val |-> List(<<items[i]>>)]
    ELSE FirstMatch(items, field, id, i + 1)

\* The scan over the parsed body: a list is scanned item by item; iterating
\* a dict yields its keys, and indexing a key by the field name raises
\* TypeError, as does iterating None.
Scan(data, field, id) ==
    IF data.ty = "list" THEN FirstMatch(data.l, field, id, 1)
    ELSE IF data.ty = "dict" /\ DOMAIN data.d = {}
    THEN [exc |-> "none", val |-> List(<<>>)]
    ELSE [exc |-> "TypeError", val |-> None]

\* The common body of clients, jobs and tasks once the URL is built.
Collection(self, url, field, id, resp) ==
    LET r == _get(self.headers, url, None, resp)
        p == _parse(self.logging, r.data, List(<<>>))
    IN  IF p.exc # "none" THEN Sent(r, p.exc, None)
        ELSE IF ~IsNone(id)
        THEN LET f == Scan(p.val, field, id.s) IN Sent(r, f.exc, f.val)
        ELSE Sent(r, "none", p.val)

clients(self, client_id, resp) ==
    IF ~HasAttr(self, {"CompanyID", "UserID"})
    THEN Raise(self.headers, "AttributeError")
    ELSE Collection(self, UserUrl(self, "Clients"), "ClientID", client_id, resp)

jobs(self, job_number, with_child_ids, resp) ==
    IF ~HasAttr(self, {"CompanyID", "UserID"})
    THEN Raise(self.headers, "AttributeError")
    ELSE Collection(self,
                    UserUrl(self, "Jobs")
                    \o (IF with_child_ids THEN "?withChildIDs=true" ELSE ""),
                    "Number", job_number, resp)

tasks(self, task_number, resp) ==
    IF ~HasAttr(self, {"CompanyID", "UserID"})
    THEN Raise(self.headers, "AttributeError")
    ELSE Collection(self, UserUrl(self, "Tasks"), "Code", task_number, resp)

\* A faulty variant of ExceedsRange: the difference taken the wrong way round.
ExceedsRangeSwapped(startdate, enddate) == startdate.ord - enddate.ord > 7

\* (enddate - startdate) > datetime.timedelta(days=7)
ExceedsRange(startdate, enddate) == enddate.ord - startdate.ord > 7

\* if type(date) == str: date = datetime.datetime.strptime(date, "%Y%m%d")
ToDate(date) ==
    IF date.ty = "str" THEN Strptime(date.s) ELSE [exc |-> "none", val |-> date]

timeentires(self, startdate, enddate, resp) ==
    IF ~HasAttr(self, {"CompanyID", "UserID"})
    THEN Raise(self.headers, "AttributeError")
    ELSE
        LET url == UserUrl(self, "Jobs")
            s   == ToDate(startdate)
            e   == IF s.exc = "none" THEN ToDate(enddate) ELSE s
            go(u) ==
                LET r == _get(self.headers, u, None, resp)
                    p == _parse(self.logging, r.data, None)
                IN  Sent(r, p.exc, p.val)
        IN  IF s.exc # "none" THEN Raise(self.headers, s.exc)
            ELSE IF e.exc # "none" THEN Raise(self.headers, e.exc)
            ELSE IF ~IsNone(s.val) /\ IsNone(e.val)
            THEN go(url \o "?date=" \o Strftime(s.val))
            ELSE IF ~IsNone(s.val) /\ ~IsNone(e.val)
            THEN IF ExceedsRange(s.val, e.val)
                 THEN Raise(self.headers, "ValueError")
                 ELSE go(url \o "?startdate=" \o Strftime(s.val)
                             \o "&enddate=" \o Strftime(e.val))
            ELSE IF IsNone(s.val) /\ ~IsNone(e.val)
            THEN Raise(self.headers, "ValueError")
            ELSE go(url)

\* A faulty variant of EntryData: Comment is left out when no comment is given.
EntryDataNoBlankComment(job_id, task_id, date, hours, comment, break_time) ==
    LET base == [JobID |-> job_id, TaskID |-> task_id, Date |-> date,
                 Hours |-> hours]
        c    == IF ~IsNone(comment) THEN SetItem(base, "Comment", comment.s)
                ELSE base
    IN  IF ~IsNone(break_time) THEN SetItem(c, "BreakTime", break_time) ELSE c

\* The dict create_timeentry builds: date is already in YYYYMMDD form and
\* hours already a float.
EntryData(job_id, task_id, date, hours, comment, break_time) ==
    LET base == [JobID |-> job_id, TaskID |-> task_id, Date |-> date,
                 Hours |-> hours, Comment |-> ""]
        c    == IF ~IsNone(comment) THEN SetItem(base, "Comment", comment.s)
                ELSE base
    IN  IF ~IsNone(break_time) THEN SetItem(c, "BreakTime", break_time) ELSE c

\* today is what datetime.datetime.today() returns during the call.
create_timeentry(self, job_id, task_id, hours, date, comment, break_time, today, resp) ==
    LET d == IF IsNone(date) THEN [exc |-> "none", val |-> today]
             ELSE ToDate(date)
        h == Float(hours)
    IN  IF d.exc # "none" THEN Raise(self.headers, d.exc)
        ELSE IF h.exc # "none" THEN Raise(self.headers, h.exc)
        ELSE IF ~HasAttr(self, {"CompanyID", "UserID"})
        THEN Raise(self.headers, "AttributeError")
        ELSE
            LET data == Dumps(Dict(EntryData(job_id, task_id, Strftime(d.val),
                                             h.val, comment, break_time)))
                r    == _post(self.headers, UserUrl(self, "TimeEntries"),
                              None, data, resp)
                p    == _parse(self.logging, r.data, None)
            IN  Sent(r, p.exc, p.val)

\* ------------------------------------------------------------ construction

\* A faulty variant of SetAttrs: only the two identity fields are copied.
SetAttrsIdentityOnly(sess) ==
    [k \in DOMAIN sess.d \cap {"CompanyID", "UserID"} |-> Str(sess.d[k])]

\* for k, v in self.__session.items(): setattr(self, str(k), str(v))
SetAttrs(sess) == [k \in DOMAIN sess.d |-> Str(sess.d[k])]

\* __init__: the outcome, with the fields the object ends up with.  log says
\* whether the module is run as __main__.
__init__(log, username, password, resp) ==
    LET hdrs == [Authorization |-> BasicAuth(username, password)]
        out  == session([headers |-> hdrs, attrs |-> <<>>, logging |-> log], resp)
        obj(e, sess, at) ==
            [exc |-> e, ret |-> None, headers |-> out.stored, session |-> sess,
             attrs |-> at, reqs |-> out.reqs, wire |-> out.wire]
    IN  IF out.exc # "none" THEN obj(out.exc, None, <<>>)
        ELSE IF IsNone(out.ret) THEN obj("StandardError", out.ret, <<>>)
        ELSE IF out.ret.ty # "dict" THEN obj("AttributeError", out.ret, <<>>)
        ELSE IF "CompanyID" \notin DOMAIN out.ret.d
        THEN obj("StandardError", out.ret, <<>>)
        ELSE obj("none", out.ret, SetAttrs(out.ret))

\* ----------------------------------------------------------------- inputs

Lists(items) == UNION {[1..n -> items] : n \in 0..MaxItems}

NotJson == [json |-> FALSE, val |-> None]

Response(status, body) == [status |-> status, body |-> body]

\* No response: the call sent nothing.
NoResponse == Response(0, NotJson)

ErrorResponses ==
    {Response(500, NotJson),
     Response(401, Dumps(Dict([Message |-> JStr("denied")])))}

\* The server's Session resource carries CompanyID and UserID; an error
\* answer carries neither.
SessionResponses ==
    {Response(200, Dumps(Dict([CompanyID |-> JInt(7), UserID |-> JStr("u1")]))),
     Response(200, Dumps(Dict([CompanyID |-> JStr("8"), UserID |-> JInt(42),
                               UserName |-> JStr("bob")]))),
     Response(200, Dumps(None))}
    \cup ErrorResponses

ClientItems ==
    {[ClientID |-> "c1", Name |-> "Acme"], [ClientID |-> "c1", Name |-> "Apex"],
     [ClientID |-> "c2", Name |-> "Bolt"]}

JobItems ==
    {[Number |-> "100", JobID |-> "j1"], [Number |-> "100", JobID |-> "j2"],
     [Number |-> "200", JobID |-> "j3"]}

TaskItems ==
    {[Code |-> "dev", TaskID |-> "t1"], [Code |-> "dev", TaskID |-> "t2"],
     [Code |-> "qa", TaskID |-> "t3"]}

CollectionResponses(items) ==
    {Response(200, Dumps(List(l))) : l \in Lists(items)} \cup ErrorResponses

CompanyResponses ==
    {Response(200, Dumps(Dict([CompanyID |-> JInt(9), Name |-> JStr("Nine")])))}
    \cup ErrorResponses

EntryResponses ==
    {Response(200, Dumps(List(<<[JobID |-> "j1", Hours |-> "2.0"]>>))),
     Response(500, NotJson)}

CreatedResponses ==
    {Response(201, Dumps(Dict([TimeEntryID |-> JStr("e1")]))),
     Response(500, NotJson)}

Usernames == {<<98, 111, 98>>}
Passwords == {<<112, 119>>, <<112, 119, 50>>}

ClientIds == {None, JStr("c1"), JStr("c2"), JStr("c9")}
JobNumbers == {None, JStr("100"), JStr("200"), JStr("300")}
TaskCodes == {None, JStr("dev"), JStr("qa"), JStr("doc")}
CompanyIds == {None, JInt(9)}
UserIds == {None, JStr("u9")}

DateStr(digits) == [ty |-> "str", s |-> digits]

\* 2022-12-30, 2023-01-01, 2023-01-08, 2023-01-09, 2023-01-15 and the
\* thirteenth month, as str; 2023-01-01 and 2023-01-09 as datetime values.
DateArgs ==
    {None,
     DateStr(<<2, 0, 2, 2, 1, 2, 3, 0>>), DateStr(<<2, 0, 2, 3, 0, 1, 0, 1>>),
     DateStr(<<2, 0, 2, 3, 0, 1, 0, 8>>), DateStr(<<2, 0, 2, 3, 0, 1, 0, 9>>),
     DateStr(<<2, 0, 2, 3, 1, 3, 0, 1>>),
     DateTime(738521), DateTime(738529)}

EntryDates ==
    {None, DateStr(<<2, 0, 2, 3, 0, 1, 1, 5>>), DateStr(<<2, 0, 2, 3, 1, 3, 0, 1>>),
     DateTime(738521)}

\* 2023-01-09 and 2024-02-29
Todays == {DateTime(738529), DateTime(738945)}

HoursArgs ==
    {JInt(2), [ty |-> "str", s |-> <<"1", ".", "5">>],
     [ty |-> "str", s |-> <<"a", "b", "c">>]}

Comments == {None, JStr("fix")}
BreakTimes == {None, JInt(30)}

CallerHeaders ==
    {None, Dict(<<>>), Dict([Authorization |-> "Basic ZXZpbA=="]),
     Dict([Accept |-> "text/plain"])}

\* The argument lists that follow the create_timeentry command.
CliArgLists ==
    LET js == {JStr("100"), JStr("300")}
        ts == {JStr("dev"), JStr("doc")}
        h  == [ty |-> "str", s |-> <<"1", ".", "5">>]
        d  == DateStr(<<2, 0, 2, 3, 0, 1, 1, 5>>)
    IN  {<<j>> : j \in js}
        \cup {<<j, t, h>> : j \in js, t \in ts}
        \cup {<<j, t, h, d>> : j \in js, t \in ts}
        \cup {<<j, t, h, d, JStr("fix")>> : j \in js, t \in ts}

\* ------------------------------------------------------------------ state

self == [headers |-> __headers, attrs |-> attrs, logging |-> logging]

\* The record of one call of operation op.
Called(op, arg, resp, out) ==
    [op |-> op, arg |-> arg,
     resp |-> IF out.reqs = <<>> THEN NoResponse ELSE resp,
     exc |-> out.exc, ret |-> out.ret, reqs |-> out.reqs, wire |-> out.wire]

CliNone == [pc |-> "none", args |-> <<>>, jobs |-> None, tasks |-> None,
            job_id |-> None, task_id |-> None, exit |-> "none"]

CliAt(pc) == [CliNone EXCEPT !.pc = pc]

\* The process ends: parser.error ("usage") or an uncaught exception.
CliExit(how) == [cli EXCEPT !.pc = "exited", !.exit = how]

Init ==
    /\ phase = "new"
    /\ logging = FALSE
    /\ made = [username |-> <<>>, password |-> <<>>]
    /\ __headers = <<>>
    /\ __session = None
    /\ attrs = <<>>
    /\ last = Called("none", None, NoResponse, Raise(<<>>, "none"))
    /\ cli = CliNone

\* ct = ClickTime(username, password), by a program that imports the module
\* (main = FALSE) or by the module run as __main__ (main = TRUE).
Construct ==
    \E main \in BOOLEAN, username \in Usernames, password \in Passwords,
       resp \in SessionResponses :
        LET out == __init__(main, username, password, resp)
        IN  /\ phase = "new"
            /\ logging' = main
            /\ made' = [username |-> username, password |-> password]
            /\ phase' = IF out.exc = "none" THEN "ready" ELSE "failed"
            /\ __headers' = IF out.exc = "none" THEN out.headers ELSE <<>>
            /\ __session' = IF out.exc = "none" THEN out.session ELSE None
            /\ attrs' = out.attrs
            /\ last' = Called("__init__", None, resp, out)
            /\ cli' = IF ~main THEN CliNone
                      ELSE IF out.exc = "none" THEN CliAt("loop")
                      ELSE [CliNone EXCEPT !.pc = "exited", !.exit = out.exc]

\* A call of a method by the importing program.
Library == phase = "ready" /\ ~logging

Do(op, arg, resp, out) ==
    /\ last' = Called(op, arg, resp, out)
    /\ __headers' = out.stored
    /\ UNCHANGED <<phase, logging, made, __session, attrs>>

Session ==
    /\ Library
    /\ \E resp \in SessionResponses :
        Do("session", None, resp, session(self, resp))
    /\ UNCHANGED cli

Company ==
    /\ Library
    /\ \E company_id \in CompanyIds, resp \in CompanyResponses :
        Do("company", company_id, resp, company(self, company_id, resp))
    /\ UNCHANGED cli

User ==
    /\ Library
    /\ \E company_id \in CompanyIds, user_id \in UserIds :
        Do("user", <<company_id, user_id>>, NoResponse,
           user(self, company_id, user_id))
    /\ UNCHANGED cli

Clients ==
    /\ Library
    /\ \E client_id \in ClientIds, resp \in CollectionResponses(ClientItems) :
        Do("clients", client_id, resp, clients(self, client_id, resp))
    /\ UNCHANGED cli

Jobs ==
    /\ Library
    /\ \E job_number \in JobNumbers, with_child_ids \in BOOLEAN,
          resp \in CollectionResponses(JobItems) :
        Do("jobs", job_number, resp, jobs(self, job_number, with_child_ids, resp))
    /\ UNCHANGED cli

Tasks ==
    /\ Library
    /\ \E task_number \in TaskCodes, resp \in CollectionResponses(TaskItems) :
        Do("tasks", task_number, resp, tasks(self, task_number, resp))
    /\ UNCHANGED cli

Timeentires ==
    /\ Library
    /\ \E startdate \in DateArgs, enddate \in DateArgs, resp \in EntryResponses :
        Do("timeentires", [startdate |-> startdate, enddate |-> enddate], resp,
           timeentires(self, startdate, enddate, resp))
    /\ UNCHANGED cli

CreateTimeentry ==
    /\ Library
    /\ \E job_id \in {"j1"}, task_id \in {"t1"}, hours \in HoursArgs,
          date \in EntryDates, comment \in Comments, break_time \in BreakTimes,
          today \in Todays, resp \in CreatedResponses :
        Do("create_timeentry",
           [job_id |-> job_id, task_id |-> task_id, hours |-> hours,
            date |-> date, comment |-> comment, break_time |-> break_time,
            today |-> today],
           resp,
           create_timeentry(self, job_id, task_id, hours, date, comment,
                            break_time, today, resp))
    /\ UNCHANGED cli

\* A direct call of the GET helper with the caller's own headers.
Get ==
    /\ Library
    /\ \E headers \in CallerHeaders, resp \in ErrorResponses :
        LET r == _get(__headers, "Session", headers, resp)
        IN  Do("_get", headers, resp, Sent(r, "none", None))
    /\ UNCHANGED cli

\* A direct call of the POST helper with the caller's own headers.
Post ==
    /\ Library
    /\ \E headers \in CallerHeaders, resp \in ErrorResponses :
        LET r == _post(__headers, "Session", headers, Dumps(Dict(<<>>)), resp)
        IN  Do("_post", headers, resp, Sent(r, "none", None))
    /\ UNCHANGED cli

\* ------------------------------------------- the command-line harness

\* action = args.pop(0) is "create_timeentry": its arguments are popped;
\* fewer than three raises IndexError, date and comment default to None.
CliCreateTimeentry ==
    /\ phase = "ready" /\ logging /\ cli.pc = "loop"
    /\ \E args \in CliArgLists :
        cli' = IF Len(args) < 3 THEN [CliNone EXCEPT !.pc = "exited", !.exit = "IndexError"]
               ELSE [CliAt("jobs") EXCEPT
                        !.args = [job_number |-> args[1], task_number |-> args[2],
                                  hours |-> args[3],
                                  date |-> IF Len(args) >= 4 THEN args[4] ELSE None,
                                  comment |-> IF Len(args) >= 5 THEN args[5] ELSE None]]
    /\ UNCHANGED <<phase, logging, made, __headers, __session, attrs, last>>

\* jobs = ct.jobs(job_number) and the check of its length.
CliJobs ==
    /\ phase = "ready" /\ logging /\ cli.pc = "jobs"
    /\ \E resp \in CollectionResponses(JobItems) :
        LET out == jobs(self, cli.args.job_number, TRUE, resp)
        IN  /\ Do("jobs", cli.args.job_number, resp, out)
            /\ cli' = IF out.exc # "none" THEN CliExit(out.exc)
                      ELSE IF Len(out.ret.l) = 0
                      THEN [CliExit("usage") EXCEPT !.jobs = out.ret]
                      ELSE IF Len(out.ret.l) > 1
                      THEN [CliExit("usage") EXCEPT !.jobs = out.ret]
                      ELSE [cli EXCEPT !.pc = "tasks", !.jobs = out.ret,
                                       !.job_id = JStr(out.ret.l[1]["JobID"])]

\* tasks = ct.tasks(task_number); the check that follows tests len(jobs).
CliTasks ==
    /\ phase = "ready" /\ logging /\ cli.pc = "tasks"
    /\ \E resp \in CollectionResponses(TaskItems) :
        LET out == tasks(self, cli.args.task_number, resp)
        IN  /\ Do("tasks", cli.args.task_number, resp, out)
            /\ cli' = IF out.exc # "none" THEN CliExit(out.exc)
                      ELSE IF Len(cli.jobs.l) = 0
                      THEN [CliExit("usage") EXCEPT !.tasks = out.ret]
                      ELSE IF Len(cli.jobs.l) > 1
                      THEN [CliExit("usage") EXCEPT !.tasks = out.ret]
                      ELSE IF Len(out.ret.l) = 0
                      THEN [CliExit("IndexError") EXCEPT !.tasks = out.ret]
                      ELSE [cli EXCEPT !.pc = "create", !.tasks = out.ret,
                                       !.task_id = JStr(out.ret.l[1]["TaskID"])]

\* ct.create_timeentry(job_id, task_id, hours, date, comment), then the loop
\* goes on with the arguments that are left.
CliCreate ==
    /\ phase = "ready" /\ logging /\ cli.pc = "create"
    /\ \E today \in Todays, resp \in CreatedResponses :
        LET a   == cli.args
            out == create_timeentry(self, cli.job_id.s, cli.task_id.s, a.hours,
                                    a.date, a.comment, None, today, resp)
        IN  /\ Do("create_timeentry",
                  [job_id |-> cli.job_id.s, task_id |-> cli.task_id.s,
                   hours |-> a.hours, date |-> a.date, comment |-> a.comment,
                   break_time |-> None, today |-> today],
                  resp, out)
            /\ cli' = IF out.exc # "none" THEN CliExit(out.exc)
                      ELSE CliAt("loop")

Next ==
    \/ Construct
    \/ Session
    \/ Company
    \/ User
    \/ Clients
    \/ Jobs
    \/ Tasks
    \/ Timeentires
    \/ CreateTimeentry
    \/ Get
    \/ Post
    \/ CliCreateTimeentry
    \/ CliJobs
    \/ CliTasks
    \/ CliCreate

Spec == Init /\ [][Next]_vars

\* ================================================================= claims

PublicOps ==
    {"session", "company", "user", "clients", "jobs", "tasks", "timeentires",
     "create_timeentry"}

IdentifyingField(op) ==
    CASE op = "clients" -> "ClientID"
      [] op = "jobs" -> "Number"
      [] op = "tasks" -> "Code"

\* The last call got a collection (a JSON list) from the server.
GotCollection ==
    /\ last.reqs # <<>>
    /\ last.resp.body.json
    /\ last.resp.body.val.ty = "list"

\* C1: when the server returns a collection, clients(id), jobs(number) and
\* tasks(code) do not raise; with an identifier they return a list of length
\* 0 or 1, and the one item's identifying field (ClientID, Number, Code) is
\* the requested value; without an identifier they return the whole
\* collection as the server sent it.
C1_FilterByIdentifier ==
    (last.op \in {"clients", "jobs", "tasks"} /\ GotCollection) =>
        /\ last.exc = "none"
        /\ IsNone(last.arg) => last.ret = last.resp.body.val
        /\ ~IsNone(last.arg) =>
            /\ last.ret.ty = "list"
            /\ Len(last.ret.l) \in {0, 1}
            /\ Len(last.ret.l) = 1 =>
                last.ret.l[1][IdentifyingField(last.op)] = last.arg.s

\* jobs("100") on a collection with two jobs numbered "100" returned one.
C1_Witness ==
    /\ last.op = "jobs"
    /\ last.arg = JStr("100")
    /\ GotCollection
    /\ Len(last.resp.body.val.l) = 2
    /\ \A i \in 1..2 : last.resp.body.val.l[i]["Number"] = "100"
    /\ last.ret = List(<<last.resp.body.val.l[1]>>)

\* The day of a date argument, counted from 2022-12-30, by the calendar.
DayNumber(date) ==
    CASE date = DateStr(<<2, 0, 2, 2, 1, 2, 3, 0>>) -> 0
      [] date = DateStr(<<2, 0, 2, 3, 0, 1, 0, 1>>) -> 2
      [] date = DateStr(<<2, 0, 2, 3, 0, 1, 0, 8>>) -> 9
      [] date = DateStr(<<2, 0, 2, 3, 0, 1, 0, 9>>) -> 10
      [] date = DateTime(738521) -> 2
      [] date = DateTime(738529) -> 10

\* The date arguments that denote a day.
IsDay(date) ==
    ~IsNone(date) /\ date # DateStr(<<2, 0, 2, 3, 1, 3, 0, 1>>)

\* C2: a time-entry query whose end date comes without a start date, or whose
\* end date is more than 7 days after its start date (each a YYYYMMDD str or
\* a date value), raises ValueError, and the call has sent no request.
C2_RangeErrorBeforeRequest ==
    LET a == last.arg
    IN  (/\ last.op = "timeentires"
         /\ \/ IsNone(a.startdate) /\ ~IsNone(a.enddate)
            \/ /\ IsDay(a.startdate) /\ IsDay(a.enddate)
               /\ DayNumber(a.enddate) - DayNumber(a.startdate) > 7)
        => /\ last.exc = "ValueError"
           /\ last.reqs = <<>>
           /\ last.wire = <<>>

\* A range of ten days, from a str to a date value, was refused.
C2_Witness ==
    /\ last.op = "timeentires"
    /\ last.arg.startdate = DateStr(<<2, 0, 2, 2, 1, 2, 3, 0>>)
    /\ last.arg.enddate = DateTime(738529)
    /\ last.exc = "ValueError"
    /\ last.reqs = <<>>

DefaultOf(op) ==
    IF op \in {"clients", "jobs", "tasks"} THEN List(<<>>) ELSE None

\* C3: in a program that imports the module, a public operation whose
\* response body is not JSON does not raise and returns the default: the
\* empty list for clients, jobs and tasks, None for the others.
C3_MalformedYieldsDefault ==
    (/\ ~logging
     /\ last.op \in PublicOps
     /\ last.reqs # <<>>
     /\ ~last.resp.body.json)
    => /\ last.exc = "none"
       /\ last.ret = DefaultOf(last.op)

\* The session response is absent (not JSON, or null) or a mapping without
\* CompanyID.
SessionAbsentOrLacking(body) ==
    \/ ~body.json
    \/ IsNone(body.val)
    \/ body.val.ty = "dict" /\ "CompanyID" \notin DOMAIN body.val.d

\* C4: construction sends exactly one session request; it fails with
\* StandardError when the session response is absent or lacks CompanyID, and
\* succeeds only when the response contains CompanyID.
C4_ConstructionOutcome ==
    last.op = "__init__" =>
        /\ Len(last.reqs) = 1
        /\ SessionAbsentOrLacking(last.resp.body) =>
            phase = "failed" /\ last.exc = "StandardError"
        /\ phase = "ready" =>
            /\ last.resp.body.json
            /\ last.resp.body.val.ty = "dict"
            /\ "CompanyID" \in DOMAIN last.resp.body.val.d

\* C5: once constructed, whatever operations follow, the instance attributes
\* are exactly the pairs of the session response parsed at construction,
\* each value coerced to str.
C5_AttrsAreSessionPairs ==
    phase = "ready" =>
        /\ __session.ty = "dict"
        /\ DOMAIN attrs = DOMAIN __session.d
        /\ \A k \in DOMAIN attrs : attrs[k] = Str(__session.d[k])

\* A later session() returned a session that differs from the one parsed at
\* construction.
C5_Witness ==
    /\ phase = "ready"
    /\ last.op = "session"
    /\ last.exc = "none"
    /\ last.ret.ty = "dict"
    /\ "CompanyID" \in DOMAIN last.ret.d
    /\ last.ret # __session
    /\ "UserName" \in DOMAIN attrs

\* The YYYYMMDD form of the date create_timeentry was given, by the calendar.
ExpectedDate(a) ==
    CASE a.date = DateStr(<<2, 0, 2, 3, 0, 1, 1, 5>>) -> "20230115"
      [] a.date = DateTime(738521) -> "20230101"
      [] IsNone(a.date) /\ a.today = DateTime(738529) -> "20230109"
      [] IsNone(a.date) /\ a.today = DateTime(738945) -> "20240229"

\* The float create_timeentry makes of the hours it was given.
ExpectedHours(a) ==
    IF a.hours = JInt(2) THEN [ty |-> "float", num |-> 2, den |-> 1]
    ELSE [ty |-> "float", num |-> 15, den |-> 10]

\* The arguments name a day and a number of hours.
EntryArgsValid(a) ==
    /\ a.date # DateStr(<<2, 0, 2, 3, 1, 3, 0, 1>>)
    /\ a.hours # [ty |-> "str", s |-> <<"a", "b", "c">>]

\* C6: create_timeentry posts a JSON body with JobID, TaskID, Hours, a Date
\* in YYYYMMDD form (the given date, or the current date when none is given)
\* and a Comment (the given one, or "" when none is given); BreakTime is
\* there exactly when a break time is given.
C6_EntryBody ==
    LET a == last.arg
    IN  last.op = "create_timeentry" =>
            /\ EntryArgsValid(a) => Len(last.reqs) = 1
            /\ last.reqs # <<>> =>
                LET r == last.reqs[1]
                    d == r.body.val.d
                IN  /\ r.method = "POST"
                    /\ r.body.json /\ r.body.val.ty = "dict"
                    /\ DOMAIN d \ {"BreakTime"}
                        = {"JobID", "TaskID", "Date", "Hours", "Comment"}
                    /\ d["JobID"] = a.job_id
                    /\ d["TaskID"] = a.task_id
                    /\ d["Hours"] = ExpectedHours(a)
                    /\ d["Date"] = ExpectedDate(a)
                    /\ d["Comment"] = (IF IsNone(a.comment) THEN "" ELSE a.comment.s)
                    /\ ("BreakTime" \in DOMAIN d) <=> ~IsNone(a.break_time)
                    /\ ~IsNone(a.break_time) => d["BreakTime"] = a.break_time

\* date="20230115" and no comment were posted as Date "20230115", Comment "".
C6_Witness ==
    /\ last.op = "create_timeentry"
    /\ last.arg.date = DateStr(<<2, 0, 2, 3, 0, 1, 1, 5>>)
    /\ IsNone(last.arg.comment)
    /\ IsNone(last.arg.break_time)
    /\ Len(last.reqs) = 1
    /\ last.reqs[1].body.val.d["Date"] = "20230115"
    /\ last.reqs[1].body.val.d["Comment"] = ""

\* C7: user() sends one GET to Companies/{id}/Users/ and returns the parsed
\* body, or None when the body is not JSON; it does not raise.
C7_UserReturnsParsedBody ==
    last.op = "user" =>
        /\ last.exc = "none"
        /\ Len(last.reqs) = 1
        /\ last.reqs[1].method = "GET"
        /\ last.ret = (IF last.resp.body.json THEN last.resp.body.val ELSE None)

\* C8: every call of a public operation opens one connection, sends exactly
\* one request on it, reads the response and closes it, in that order.
C8_OneConnectionPerCall ==
    last.op \in PublicOps =>
        /\ last.wire = ConnectionSteps
        /\ Len(last.reqs) = 1

\* The Authorization header of the credentials given at construction.
ExpectedAuthorization ==
    CASE made.username = <<98, 111, 98>> /\ made.password = <<112, 119>>
            -> "Basic Ym9iOnB3"
      [] made.username = <<98, 111, 98>> /\ made.password = <<112, 119, 50>>
            -> "Basic Ym9iOnB3Mg=="

\* C9: every request sent, GET or POST, whatever headers the caller gave,
\* carries the Basic Authorization header of the credentials given at
\* construction; the stored mapping holds that one entry after any calls,
\* and a GET carries no content-type the caller did not give.
C9_AuthorizationOnEveryRequest ==
    /\ phase = "ready" => __headers = [Authorization |-> ExpectedAuthorization]
    /\ \A i \in 1..Len(last.reqs) :
        /\ last.reqs[i].headers["Authorization"] = ExpectedAuthorization
        /\ last.reqs[i].method = "GET" =>
            "content-type" \notin DOMAIN last.reqs[i].headers

\* A POST whose caller gave an Authorization header of its own was sent.
C9_Witness ==
    /\ last.op = "_post"
    /\ last.arg = Dict([Authorization |-> "Basic ZXZpbA=="])
    /\ Len(last.reqs) = 1
    /\ "content-type" \in DOMAIN last.reqs[1].headers
    /\ made.password = <<112, 119, 50>>

\* A lookup of the command returned a list that does not hold exactly one
\* match.
LookupFailed(found) == found.ty = "list" /\ Len(found.l) # 1

\* C10: the create_timeentry command ends with a usage error when the job
\* lookup or the task lookup does not find exactly one match, and
\* create_timeentry is called only after both found exactly one.
C10_UsageErrorOnFailedLookup ==
    /\ (cli.pc = "exited" /\ (LookupFailed(cli.jobs) \/ LookupFailed(cli.tasks)))
        => cli.exit = "usage"
    /\ cli.pc = "create" => ~LookupFailed(cli.jobs) /\ ~LookupFailed(cli.tasks)
====
